---- MODULE Spec2Model ----
(***************************************************************************)
(* hetzner-ddns: the scheduler (Service.Run), the sync cycle               *)
(* (Service.syncOnce), the record reconciler (Service.updateRecord,        *)
(* Service.ensureTTL) and the retry executor (retry), as one sequential    *)
(* goroutine acting on a remote zone service, with the interval ticker and *)
(* the cancellation signal as its environment.                             *)
(***************************************************************************)
EXTENDS Integers, Sequences, FiniteSets, TLC

(* ------------------------------------------------------------------ *)
(* Bounds of the model                                                 *)
(* ------------------------------------------------------------------ *)
\* largest value collection a remote record-set starts with
MaxVals == 2
\* number of sync cycles the scheduler is followed through
MaxCycles == 2
\* largest RETRY_ATTEMPTS the service is configured with
MaxAttempts == 2
\* largest RETRY_BASE_DELAY of the retry harness (in units of 500ms)
MaxBase == 2
\* largest RETRY_MAX_DELAY of the retry harness (in units of 500ms)
MaxCap == 10
\* largest attempts argument handed to retry by the harness
MaxTries == 7
\* number of sync cycles the scheduler specification is followed through
MaxSchedCycles == 3

(* ------------------------------------------------------------------ *)
(* Values: *int pointers, strings, addresses                           *)
(* ------------------------------------------------------------------ *)
\* a nil *int and a set one
NilInt == [set |-> FALSE, v |-> 0]
IntPtr(n) == [set |-> TRUE, v |-> n]

\* A string is a sequence of tokens: a whitespace character or an address
\* literal of one family.
SP == [k |-> "sp", h |-> 0]
Lit(fam, h) == [k |-> fam, h |-> h]
IsSpace(t) == t.k = "sp"

RECURSIVE TrimLeft(_)
TrimLeft(s) == IF s # <<>> /\ IsSpace(Head(s)) THEN TrimLeft(Tail(s)) ELSE s

RECURSIVE TrimRight(_)
TrimRight(s) ==
    IF s # <<>> /\ IsSpace(s[Len(s)]) THEN TrimRight(SubSeq(s, 1, Len(s) - 1)) ELSE s

\* strings.TrimSpace
TrimSpace(s) == TrimRight(TrimLeft(s))

\* net.IP as ParseIP returns it: to4 says whether To4() is non-nil (an IPv4
\* or an IPv4-mapped IPv6 address), h identifies the host.
Hosts == { 1, 2 }
IPs == [to4 : BOOLEAN, h : Hosts]
NoIP == [to4 |-> FALSE, h |-> 0]

\* net.IP.String
IPString(ip) == << Lit(IF ip.to4 THEN "v4" ELSE "v6", ip.h) >>

\* mutant of normalizeIP: the family of the address is not checked
normalizeIPAnyFamily(recordType, ipAddr) ==
    IF recordType \in { "A", "AAAA" }
    THEN [ok |-> TRUE, s |-> IPString(ipAddr)]
    ELSE [ok |-> FALSE, s |-> <<>>]

\* normalizeIP: the canonical text of the address for the record type, or an
\* error.
normalizeIP(recordType, ipAddr) ==
    CASE recordType = "A" ->
            IF ~ipAddr.to4 THEN [ok |-> FALSE, s |-> <<>>]
            ELSE [ok |-> TRUE, s |-> IPString(ipAddr)]
      [] recordType = "AAAA" ->
            IF ipAddr.to4 THEN [ok |-> FALSE, s |-> <<>>]
            ELSE [ok |-> TRUE, s |-> IPString(ipAddr)]
      [] OTHER -> [ok |-> FALSE, s |-> <<>>]

(* ------------------------------------------------------------------ *)
(* Configuration (config.Config)                                       *)
(* ------------------------------------------------------------------ *)
RecordConfig(name, ttl) == [Name |-> name, TTL |-> ttl]
ZoneConfig(name, type, url, ttl, records) ==
    [Name |-> name, RecordType |-> type, IPProviderURL |-> url, TTL |-> ttl,
     Records |-> records]

ZoneNames == {"z1", "z2"}
RecordNames == {"@", "vpn"}
URLs == {"u1", "u2"}
TTLs == {60, 120}
Keys == ZoneNames \X RecordNames

\* two zones that share the provider, the first with two records
TwoZones ==
    << ZoneConfig("z1", "A", "u1", NilInt,
                  << RecordConfig("@", NilInt), RecordConfig("vpn", IntPtr(120)) >>),
       ZoneConfig("z2", "A", "u1", IntPtr(60), << RecordConfig("@", NilInt) >>) >>

\* one zone with one record, with or without a TTL
OneZone(ttl) == << ZoneConfig("z1", "A", "u1", NilInt, << RecordConfig("@", ttl) >>) >>

Config(zones, preserve, attempts, base, max) ==
    [Zones |-> zones, PreserveRecords |-> preserve, RetryAttempts |-> attempts,
     RetryBaseDelay |-> base, RetryMaxDelay |-> max]

(* ------------------------------------------------------------------ *)
(* The remote record-set (hcloud.ZoneRRSet)                             *)
(* ------------------------------------------------------------------ *)
NoRRSet == [present |-> FALSE, Records |-> <<>>, TTL |-> NilInt]
RRSet(values, ttl) == [present |-> TRUE, Records |-> values, TTL |-> ttl]

\* an address no provider ever reports: a value somebody else put in a
\* record-set
StaleHost == CHOOSE h \in 1..4 : h \notin Hosts

\* the strings a remote record of the family may hold at the start: the zone
\* service returns address texts in canonical form
RemoteStrings(fam) ==
    << << Lit(fam, 1) >>, << Lit(fam, 2) >>, << Lit(fam, StaleHost) >> >>

\* the elements of q at the indexes in I, in the order of q
RECURSIVE Pick(_, _)
Pick(q, I) ==
    IF I = {} THEN <<>>
    ELSE LET m == CHOOSE i \in I : \A j \in I : j <= i
         IN Append(Pick(q, I \ { m }), q[m])

\* the record-sets a record may start with: none, or up to MaxVals distinct
\* values (one order of each collection) with any TTL
RemoteRRSets(fam) ==
    { NoRRSet } \cup
    { RRSet(Pick(RemoteStrings(fam), I), ttl) :
        I \in { J \in SUBSET (1..Len(RemoteStrings(fam))) : Cardinality(J) <= MaxVals },
        ttl \in { NilInt } \cup { IntPtr(t) : t \in TTLs } }

Range(q) == { q[i] : i \in 1..Len(q) }

(* ------------------------------------------------------------------ *)
(* Errors                                                              *)
(* ------------------------------------------------------------------ *)
\* kind: "nil" (no error), "op" (the error the operation returned on its
\* n-th invocation) or "ctx" (ctx.Err(), returned by retry's select).
\* cause: what made the operation fail.
NoErr == [kind |-> "nil", n |-> 0, cause |-> "none"]
OpErr(n, cause) == [kind |-> "op", n |-> n, cause |-> cause]
CtxErr == [kind |-> "ctx", n |-> 0, cause |-> "canceled"]

(* ------------------------------------------------------------------ *)
(* The record reconciler's decisions (Service.updateRecord, ensureTTL)  *)
(* ------------------------------------------------------------------ *)
\* mutants of Decide: an absent record-set is replaced, not created; the
\* preserve flag is ignored; a present value always short-circuits
DecideAbsentReplaces(rr, ip, preserve) ==
    IF ~rr.present THEN "set"
    ELSE IF (\E i \in 1..Len(rr.Records) : TrimSpace(rr.Records[i]) = ip)
            /\ ~(~preserve /\ Len(rr.Records) > 1)
         THEN "uptodate"
    ELSE IF preserve /\ Len(rr.Records) > 1 THEN "add"
    ELSE "set"

DecideNeverAppends(rr, ip, preserve) ==
    IF ~rr.present THEN "create"
    ELSE IF (\E i \in 1..Len(rr.Records) : TrimSpace(rr.Records[i]) = ip)
            /\ ~(~preserve /\ Len(rr.Records) > 1)
         THEN "uptodate"
    ELSE "set"

DecideShortCircuits(rr, ip, preserve) ==
    IF ~rr.present THEN "create"
    ELSE IF \E i \in 1..Len(rr.Records) : TrimSpace(rr.Records[i]) = ip
         THEN "uptodate"
    ELSE IF preserve /\ Len(rr.Records) > 1 THEN "add"
    ELSE "set"

\* further mutants of Decide: a two-valued record-set is not yet preserved;
\* a value that is present never short-circuits
DecideAppendsFromThree(rr, ip, preserve) ==
    IF ~rr.present THEN "create"
    ELSE IF (\E i \in 1..Len(rr.Records) : TrimSpace(rr.Records[i]) = ip)
            /\ ~(~preserve /\ Len(rr.Records) > 1)
         THEN "uptodate"
    ELSE IF preserve /\ Len(rr.Records) > 2 THEN "add"
    ELSE "set"

DecideAlwaysMutates(rr, ip, preserve) ==
    IF ~rr.present THEN "create"
    ELSE IF preserve /\ Len(rr.Records) > 1 THEN "add"
    ELSE "set"

rrsetHasValue(rr, ip) ==
    \E i \in 1..Len(rr.Records) : TrimSpace(rr.Records[i]) = ip

\* The branch updateRecord takes once the record-set lookup has returned.
Decide(rr, ip, preserve) ==
    IF ~rr.present THEN "create"
    ELSE IF rrsetHasValue(rr, ip) /\ ~(~preserve /\ Len(rr.Records) > 1)
         THEN "uptodate"
    ELSE IF preserve /\ Len(rr.Records) > 1 THEN "add"
    ELSE "set"

\* mutant of needsTTLChange: a record-set without a TTL is left without one
needsTTLChangeIfSet(rr, ttl) ==
    /\ ttl.set
    /\ rr.TTL.set /\ rr.TTL.v # ttl.v

\* mutant of needsTTLChange: the remote TTL is not compared
needsTTLChangeAlways(rr, ttl) == ttl.set

\* ensureTTL issues a change-TTL call iff this holds.
needsTTLChange(rr, ttl) ==
    /\ ttl.set
    /\ ~(rr.TTL.set /\ rr.TTL.v = ttl.v)

\* mutant of resolveTTL: the record's own TTL is ignored
resolveTTLZoneOnly(zoneCfg, record) == zoneCfg.TTL

\* The effective TTL of a record: its own, else the zone's.
resolveTTL(zoneCfg, record) ==
    IF record.TTL.set THEN record.TTL ELSE zoneCfg.TTL

(* ------------------------------------------------------------------ *)
(* The zone service's answers to the mutation calls                    *)
(* ------------------------------------------------------------------ *)
CreateRRSet(ip, ttl) == { RRSet(<< ip >>, ttl) }

\* An append keeps every value; the service may or may not apply the TTL
\* that comes with it.
AddRRSetRecords(now, ip, ttl) ==
    { RRSet(Append(now.Records, ip), t) :
        t \in { now.TTL } \cup (IF ttl.set THEN { ttl } ELSE {}) }

SetRRSetRecords(now, ip) == { RRSet(<< ip >>, now.TTL) }

ChangeRRSetTTL(now, ttl) == { RRSet(now.Records, ttl) }

(* ------------------------------------------------------------------ *)
(* The retry executor (retry)                                          *)
(* ------------------------------------------------------------------ *)
\* st: "idle" (no call), "call" (about to invoke the operation), "select"
\* (timer created, select not yet executed), "parked" (blocked in select)
RetryIdle ==
    [attempts |-> 0, attempt |-> 0, delay |-> 0, lastErr |-> NoErr, st |-> "idle"]

\* lines 9-15: attempts <= 0 becomes 1; delay starts at baseDelay
RetryStart(attempts, baseDelay) ==
    [attempts |-> IF attempts <= 0 THEN 1 ELSE attempts, attempt |-> 1,
     delay |-> baseDelay, lastErr |-> NoErr, st |-> "call"]

\* mutant of NextDelay: the cap is missing
NextDelayNoCap(delay, maxDelay) == delay * 2

\* lines 33-36
NextDelay(delay, maxDelay) ==
    LET d == delay * 2 IN IF d > maxDelay THEN maxDelay ELSE d

\* mutant of LastAttempt: off by one
LastAttemptEarly(r) == r.attempt >= r.attempts - 1

\* line 22: the attempt that just failed was the last one
LastAttempt(r) == r.attempt = r.attempts

\* mutant of SelectDoneErr: the last operation error is returned
SelectDoneLastErr(r) == r.lastErr

\* lines 28-30: what retry returns when ctx.Done() is the case chosen
SelectDoneErr(r) == CtxErr

VARIABLES
    cfg,          \* config.Config, fixed at start
    remote,       \* the zone service: record-set of every (zone, record)
    cancelled,    \* ctx is done
    ticker,       \* the ticker of Run exists
    tickPending,  \* a tick is buffered in ticker.C
    cycle,        \* number of sync cycles started
    pc,           \* position of the goroutine
    zi, ri,       \* syncOnce: index of the zone, of the record
    ipCache,      \* syncOnce: provider URL -> address (NoIP: not cached)
    ipStr,        \* syncOnce: the normalized address of the zone
    errs,         \* syncOnce: the errors collected in this cycle
    lastErrs,     \* number of errors of the last finished cycle (-1: none yet)
    rrset,        \* updateRecord: the record-set as looked up
    cur,          \* updateRecord: the invocation in progress or just finished
    calls,        \* the remote calls of that invocation, through withRetry
    prev,         \* per record: the address of the last invocation, if it succeeded
    looked,       \* records whose lookup was issued in this cycle
    zoneOk,       \* zones that passed IP fetch, validation and zone lookup
    rt,           \* retry: attempts, attempt, delay, lastErr, position
    ncalls,       \* invocations of the operation by the running retry
    plan,         \* harness: the invocation that succeeds (0: none)
    result        \* harness: what retry returned

vars == << cfg, remote, cancelled, ticker, tickPending, cycle, pc, zi, ri, ipCache,
           ipStr, errs, lastErrs, rrset, cur, calls, prev, looked, zoneOk, rt, ncalls,
           plan, result >>

NoCur ==
    [valid |-> FALSE, zone |-> "z1", record |-> "@", ip |-> <<>>, ttl |-> NilInt,
     again |-> FALSE, fin |-> FALSE, found |-> FALSE, err |-> NoErr]
NoPrev == [ok |-> FALSE, ip |-> <<>>]

RecordOps == { "get_rrset", "create", "add", "set", "change_ttl" }

ZoneCfg == cfg.Zones[zi]
CurKey == << cur.zone, cur.record >>

\* one remote call issued through withRetry, with what it carries
Call(op, values, ttl) == [op |-> op, values |-> values, ttl |-> ttl]

\* the cause of a failed attempt: the context's, once it is cancelled
Cause(c) == IF cancelled THEN "canceled" ELSE c

(* ------------------------------------------------------------------ *)
(* Where the goroutine goes next. Each of these sets pc, zi, ri, errs,  *)
(* prev, rt, result, calls, cur and ncalls.                             *)
(* ------------------------------------------------------------------ *)
\* withRetry(ctx, label, fn) is entered: retry starts with attempt 1
StartCall(c, op, entry) ==
    /\ pc' = op
    /\ rt' = RetryStart(cfg.RetryAttempts, cfg.RetryBaseDelay)
    /\ calls' = Append(calls, entry)
    /\ cur' = c
    /\ ncalls' = 0
    /\ UNCHANGED << zi, ri, errs, prev, result >>

\* mutant of ZoneFailed: a zone that fails ends the cycle
ZoneFailedEndsCycle(stage, err, tries) ==
    /\ errs' = Append(errs, [zone |-> ZoneCfg.Name, record |-> "", stage |-> stage,
                             err |-> err, tries |-> tries])
    /\ zi' = Len(cfg.Zones) + 1
    /\ pc' = "zone"
    /\ rt' = RetryIdle
    /\ ncalls' = tries
    /\ UNCHANGED << ri, prev, result, calls, cur >>

\* syncOnce lines 124-127, 135-138, 144-147: the zone is given up
ZoneFailed(stage, err, tries) ==
    /\ errs' = Append(errs, [zone |-> ZoneCfg.Name, record |-> "", stage |-> stage,
                             err |-> err, tries |-> tries])
    /\ zi' = zi + 1
    /\ pc' = "zone"
    /\ rt' = RetryIdle
    /\ ncalls' = tries
    /\ UNCHANGED << ri, prev, result, calls, cur >>

\* mutant of RecordReturn: an error ends the zone
RecordReturnAbortsZone(c, err, tries) ==
    /\ errs' = IF err.kind = "nil" THEN errs
               ELSE Append(errs, [zone |-> c.zone, record |-> c.record, stage |-> pc,
                                  err |-> err, tries |-> tries])
    /\ cur' = [c EXCEPT !.fin = TRUE, !.err = err]
    /\ prev' = [prev EXCEPT ![<< c.zone, c.record >>] =
                                IF err.kind = "nil" THEN [ok |-> TRUE, ip |-> c.ip]
                                ELSE NoPrev]
    /\ ri' = IF err.kind = "nil" THEN ri + 1 ELSE Len(ZoneCfg.Records) + 1
    /\ pc' = "record"
    /\ rt' = RetryIdle
    /\ ncalls' = tries
    /\ UNCHANGED << zi, result, calls >>

\* updateRecord returns err to syncOnce lines 157-160
RecordReturn(c, err, tries) ==
    /\ errs' = IF err.kind = "nil" THEN errs
               ELSE Append(errs, [zone |-> c.zone, record |-> c.record, stage |-> pc,
                                  err |-> err, tries |-> tries])
    /\ cur' = [c EXCEPT !.fin = TRUE, !.err = err]
    /\ prev' = [prev EXCEPT ![<< c.zone, c.record >>] =
                                IF err.kind = "nil" THEN [ok |-> TRUE, ip |-> c.ip]
                                ELSE NoPrev]
    /\ ri' = ri + 1
    /\ pc' = "record"
    /\ rt' = RetryIdle
    /\ ncalls' = tries
    /\ UNCHANGED << zi, result, calls >>

\* the harness receives what retry returned
HarnessReturn(err, tries) ==
    /\ result' = [done |-> TRUE, err |-> err]
    /\ pc' = "harness_done"
    /\ rt' = [rt EXCEPT !.st = "idle"]
    /\ ncalls' = tries
    /\ UNCHANGED << zi, ri, errs, prev, calls, cur >>

\* retry returns err to the caller of withRetry
RetryReturn(err, tries) ==
    CASE pc = "get_zone" -> ZoneFailed("zone lookup", err, tries)
      [] pc \in RecordOps -> RecordReturn(cur, err, tries)
      [] pc = "harness" -> HarnessReturn(err, tries)

\* retry lines 20-26: the operation returned err
AttemptFailed(err, tries) ==
    IF LastAttempt(rt)
    THEN RetryReturn(err, tries)
    ELSE /\ rt' = [rt EXCEPT !.lastErr = err, !.st = "select"]
         /\ ncalls' = tries
         /\ UNCHANGED << pc, zi, ri, errs, prev, result, calls, cur >>

\* mutant of ensureTTL: the TTL is never changed
ensureTTLSkips(c, rr, tries) == RecordReturn(c, NoErr, tries)

\* ensureTTL against the record-set updateRecord holds
ensureTTL(c, rr, tries) ==
    IF needsTTLChange(rr, c.ttl)
    THEN StartCall(c, "change_ttl", Call("change_ttl", <<>>, c.ttl))
    ELSE RecordReturn(c, NoErr, tries)

\* syncOnce lines 112-113
SyncBegin ==
    /\ pc' = "zone"
    /\ zi' = 1
    /\ errs' = <<>>
    /\ ipCache' = [u \in URLs |-> NoIP]
    /\ looked' = {}
    /\ zoneOk' = {}
    /\ UNCHANGED << ri, prev, rt, result, calls, cur, ncalls, ipStr, rrset, lastErrs >>

\* syncOnce lines 134-143, with the address of the zone in hand
AfterIP(ip) ==
    LET n == normalizeIP(ZoneCfg.RecordType, ip) IN
    IF ~n.ok
    THEN /\ ZoneFailed("ip validation", OpErr(0, "validation"), 0)
         /\ UNCHANGED ipStr
    ELSE /\ ipStr' = n.s
         /\ pc' = "get_zone"
         /\ rt' = RetryStart(cfg.RetryAttempts, cfg.RetryBaseDelay)
         /\ ncalls' = 0
         /\ UNCHANGED << zi, ri, errs, prev, result, calls, cur >>

(* ------------------------------------------------------------------ *)
(* Service.Run                                                         *)
(* ------------------------------------------------------------------ *)
\* line 92: the initial sync, before the ticker exists
RunStart ==
    /\ pc = "run_start"
    /\ cycle' = 1
    /\ SyncBegin
    /\ UNCHANGED << cfg, remote, cancelled, ticker, tickPending, plan >>

\* lines 100-102: ctx.Done() is ready and is the case chosen
RunSelectDone ==
    /\ pc = "run_select"
    /\ cancelled
    /\ pc' = "stopped"
    /\ UNCHANGED << cfg, remote, cancelled, ticker, tickPending, cycle, zi, ri, ipCache,
                    ipStr, errs, lastErrs, rrset, cur, calls, prev, looked, zoneOk, rt,
                    ncalls, plan, result >>

\* mutant of RunSelectTick: the tick received stays in the channel
RunSelectTickKeepsTick ==
    /\ pc = "run_select"
    /\ tickPending
    /\ cycle < MaxCycles
    /\ tickPending' = tickPending
    /\ cycle' = cycle + 1
    /\ SyncBegin
    /\ UNCHANGED << cfg, remote, cancelled, ticker, plan >>

\* lines 103-104: a tick is ready and is the case chosen
RunSelectTick ==
    /\ pc = "run_select"
    /\ tickPending
    /\ tickPending' = FALSE
    /\ cycle' = cycle + 1
    /\ SyncBegin
    /\ UNCHANGED << cfg, remote, cancelled, ticker, plan >>

\* line 100: no case is ready, the goroutine blocks in the select
RunPark ==
    /\ pc = "run_select"
    /\ ~cancelled
    /\ ~tickPending
    /\ pc' = "run_parked"
    /\ UNCHANGED << cfg, remote, cancelled, ticker, tickPending, cycle, zi, ri, ipCache,
                    ipStr, errs, lastErrs, rrset, cur, calls, prev, looked, zoneOk, rt,
                    ncalls, plan, result >>

\* mutant of TickWithin: a tick that fires during a cycle starts another one
TickWithinStartsCycle(maxCycles) ==
    /\ ticker
    /\ ~tickPending
    /\ cycle < maxCycles
    /\ pc \in { "zone", "run_select", "run_parked" }
    /\ cycle' = cycle + 1
    /\ SyncBegin
    /\ UNCHANGED << cfg, remote, cancelled, ticker, tickPending, plan >>

\* The ticker fires. A goroutine blocked in Run's select receives the tick
\* at once; otherwise the tick is buffered (a tick that finds the buffer full
\* is dropped, which changes nothing). The buffer is read by Run's select
\* alone, so a tick that fires during a cycle is taken at a zone boundary of
\* that cycle.
TickWithin(maxCycles) ==
    /\ ticker
    /\ ~tickPending
    /\ cycle < maxCycles
    /\ pc \in { "zone", "run_select", "run_parked" }
    /\ IF pc = "run_parked"
       THEN /\ cycle' = cycle + 1
            /\ SyncBegin
            /\ UNCHANGED tickPending
       ELSE /\ tickPending' = TRUE
            /\ UNCHANGED << cycle, pc, zi, ri, ipCache, ipStr, errs, lastErrs, rrset, cur,
                            calls, prev, looked, zoneOk, rt, ncalls, result >>
    /\ UNCHANGED << cfg, remote, cancelled, ticker, plan >>

\* the ticker of the service specifications, and the one of the scheduler
\* specification, which is followed one cycle further
Tick == TickWithin(MaxCycles)

TickSched == TickWithin(MaxSchedCycles)

\* mutant of Cancel: a goroutine blocked in a select is not woken
CancelWakesNobody ==
    /\ ~cancelled
    /\ pc # "stopped"
    /\ cancelled' = TRUE
    /\ UNCHANGED << pc, zi, ri, errs, prev, rt, result, calls, cur, ncalls >>
    /\ UNCHANGED << cfg, remote, ticker, tickPending, cycle, ipCache, ipStr, lastErrs,
                    rrset, looked, zoneOk, plan >>

\* The cancellation signal is raised. A goroutine blocked in a select has
\* ctx.Done() as the case that wakes it: Run returns (line 102), retry
\* returns ctx.Err() (retry.go lines 28-30).
Cancel ==
    /\ ~cancelled
    /\ pc # "stopped"
    /\ cancelled' = TRUE
    /\ IF pc = "run_parked"
       THEN /\ pc' = "stopped"
            /\ UNCHANGED << zi, ri, errs, prev, rt, result, calls, cur, ncalls >>
       ELSE IF rt.st = "parked"
       THEN RetryReturn(SelectDoneErr(rt), ncalls)
       ELSE UNCHANGED << pc, zi, ri, errs, prev, rt, result, calls, cur, ncalls >>
    /\ UNCHANGED << cfg, remote, ticker, tickPending, cycle, ipCache, ipStr, lastErrs,
                    rrset, looked, zoneOk, plan >>

(* ------------------------------------------------------------------ *)
(* retry: the backoff wait                                             *)
(* ------------------------------------------------------------------ *)
\* lines 27-30: ctx.Done() is ready when the select is executed
RetrySelectDone ==
    /\ rt.st = "select"
    /\ cancelled
    /\ RetryReturn(SelectDoneErr(rt), ncalls)
    /\ UNCHANGED << cfg, remote, cancelled, ticker, tickPending, cycle, ipCache, ipStr,
                    lastErrs, rrset, looked, zoneOk, plan >>

\* lines 31-36: the timer fires and is the case chosen; the delay doubles
RetrySelectTimer ==
    /\ rt.st \in { "select", "parked" }
    /\ rt' = [rt EXCEPT !.attempt = @ + 1,
                        !.delay = NextDelay(@, cfg.RetryMaxDelay),
                        !.st = "call"]
    /\ UNCHANGED << cfg, remote, cancelled, ticker, tickPending, cycle, pc, zi, ri,
                    ipCache, ipStr, errs, lastErrs, rrset, cur, calls, prev, looked,
                    zoneOk, ncalls, plan, result >>

\* line 27: no case is ready, the goroutine blocks in the select
RetryPark ==
    /\ rt.st = "select"
    /\ ~cancelled
    /\ rt' = [rt EXCEPT !.st = "parked"]
    /\ UNCHANGED << cfg, remote, cancelled, ticker, tickPending, cycle, pc, zi, ri,
                    ipCache, ipStr, errs, lastErrs, rrset, cur, calls, prev, looked,
                    zoneOk, ncalls, plan, result >>

(* ------------------------------------------------------------------ *)
(* Service.syncOnce                                                    *)
(* ------------------------------------------------------------------ *)
\* mutant of ZoneStep: a failed request is remembered, and the next zone with
\* the same provider fails without a request
ZoneStepRemembersFailure ==
    /\ pc = "zone"
    /\ zi <= Len(cfg.Zones)
    /\ IF ipCache[ZoneCfg.IPProviderURL] # NoIP
       THEN AfterIP(ipCache[ZoneCfg.IPProviderURL])
       ELSE IF \E i \in 1..Len(errs) :
                  /\ errs[i].stage = "ip fetch"
                  /\ \E j \in 1..Len(cfg.Zones) :
                        /\ cfg.Zones[j].Name = errs[i].zone
                        /\ cfg.Zones[j].IPProviderURL = ZoneCfg.IPProviderURL
       THEN /\ ZoneFailed("ip fetch", OpErr(1, "transport"), 0)
            /\ UNCHANGED ipStr
       ELSE /\ pc' = "ip_fetch"
            /\ ncalls' = 0
            /\ UNCHANGED << zi, ri, errs, prev, rt, result, calls, cur, ipStr >>
    /\ UNCHANGED << cfg, remote, cancelled, ticker, tickPending, cycle, ipCache, lastErrs,
                    rrset, looked, zoneOk, plan >>

\* mutant of ZoneStep: the cache is not consulted
ZoneStepAlwaysFetches ==
    /\ pc = "zone"
    /\ zi <= Len(cfg.Zones)
    /\ pc' = "ip_fetch"
    /\ ncalls' = 0
    /\ UNCHANGED << zi, ri, errs, prev, rt, result, calls, cur, ipStr >>
    /\ UNCHANGED << cfg, remote, cancelled, ticker, tickPending, cycle, ipCache, lastErrs,
                    rrset, looked, zoneOk, plan >>

\* lines 114-116: the next zone; its address is cached or must be fetched
ZoneStep ==
    /\ pc = "zone"
    /\ zi <= Len(cfg.Zones)
    /\ IF ipCache[ZoneCfg.IPProviderURL] # NoIP
       THEN AfterIP(ipCache[ZoneCfg.IPProviderURL])
       ELSE /\ pc' = "ip_fetch"
            /\ ncalls' = 0
            /\ UNCHANGED << zi, ri, errs, prev, rt, result, calls, cur, ipStr >>
    /\ UNCHANGED << cfg, remote, cancelled, ticker, tickPending, cycle, ipCache, lastErrs,
                    rrset, looked, zoneOk, plan >>

\* lines 119-132: one request to the provider, under withTimeout only
FetchIP ==
    /\ pc = "ip_fetch"
    /\ \/ /\ ~cancelled
          /\ \E ip \in IPs :
                /\ ipCache' = [ipCache EXCEPT ![ZoneCfg.IPProviderURL] = ip]
                /\ AfterIP(ip)
       \/ /\ \E c \in { "transport", "invalid" } :
                ZoneFailed("ip fetch", OpErr(1, Cause(c)), 1)
          /\ UNCHANGED << ipCache, ipStr >>
    /\ UNCHANGED << cfg, remote, cancelled, ticker, tickPending, cycle, lastErrs, rrset,
                    looked, zoneOk, plan >>

\* getZone, one attempt: the zone, or an error (a zone that is not found is
\* an error of the attempt, line 197)
GetZoneAttempt ==
    /\ pc = "get_zone"
    /\ rt.st = "call"
    /\ \/ /\ ~cancelled
          /\ zoneOk' = zoneOk \cup { ZoneCfg.Name }
          /\ pc' = "record"
          /\ ri' = 1
          /\ rt' = RetryIdle
          /\ ncalls' = ncalls + 1
          /\ UNCHANGED << zi, errs, prev, result, calls, cur >>
       \/ /\ \E c \in { "transport", "notfound" } :
                AttemptFailed(OpErr(rt.attempt, Cause(c)), ncalls + 1)
          /\ UNCHANGED zoneOk
    /\ UNCHANGED << cfg, remote, cancelled, ticker, tickPending, cycle, ipCache, ipStr,
                    lastErrs, rrset, looked, plan >>

\* lines 151-157: the next record of the zone; updateRecord is entered
RecordStep ==
    /\ pc = "record"
    /\ ri <= Len(ZoneCfg.Records)
    /\ LET record == ZoneCfg.Records[ri]
           key == << ZoneCfg.Name, record.Name >>
           c == [valid |-> TRUE, zone |-> ZoneCfg.Name, record |-> record.Name,
                 ip |-> ipStr, ttl |-> resolveTTL(ZoneCfg, record),
                 again |-> prev[key].ok /\ prev[key].ip = ipStr,
                 fin |-> FALSE, found |-> FALSE, err |-> NoErr]
       IN /\ looked' = looked \cup { key }
          /\ pc' = "get_rrset"
          /\ rt' = RetryStart(cfg.RetryAttempts, cfg.RetryBaseDelay)
          /\ calls' = << Call("get_rrset", <<>>, NilInt) >>
          /\ cur' = c
          /\ ncalls' = 0
    /\ rrset' = NoRRSet
    /\ UNCHANGED << cfg, remote, cancelled, ticker, tickPending, cycle, zi, ri, ipCache,
                    ipStr, errs, lastErrs, prev, zoneOk, plan, result >>

\* line 151: the zone has no further record; the locals of the last
\* updateRecord are gone
ZoneDone ==
    /\ pc = "record"
    /\ ri > Len(ZoneCfg.Records)
    /\ zi' = zi + 1
    /\ pc' = "zone"
    /\ ipStr' = <<>>
    /\ rrset' = NoRRSet
    /\ cur' = NoCur
    /\ calls' = <<>>
    /\ ncalls' = 0
    /\ UNCHANGED << cfg, remote, cancelled, ticker, tickPending, cycle, ri, ipCache,
                    errs, lastErrs, prev, looked, zoneOk, rt, plan, result >>

\* mutant of SyncReturn: a cycle that ends with errors stops the scheduler
SyncReturnStopsOnError ==
    /\ pc = "zone"
    /\ zi > Len(cfg.Zones)
    /\ lastErrs' = Len(errs)
    /\ ticker' = TRUE
    /\ pc' = IF Len(errs) > 0 THEN "stopped" ELSE "run_select"
    /\ zi' = 1
    /\ ri' = 1
    /\ errs' = <<>>
    /\ ipCache' = [u \in URLs |-> NoIP]
    /\ looked' = {}
    /\ zoneOk' = {}
    /\ ncalls' = 0
    /\ UNCHANGED << cfg, remote, cancelled, tickPending, cycle, ipStr, rrset, cur, calls,
                    prev, rt, plan, result >>

\* lines 163-166 and Run lines 92-97, 104-106: syncOnce returns, its locals
\* are gone; Run logs the error and goes (after the initial sync: creates the
\* ticker and goes) to its select
SyncReturn ==
    /\ pc = "zone"
    /\ zi > Len(cfg.Zones)
    /\ lastErrs' = Len(errs)
    /\ ticker' = TRUE
    /\ pc' = "run_select"
    /\ zi' = 1
    /\ ri' = 1
    /\ errs' = <<>>
    /\ ipCache' = [u \in URLs |-> NoIP]
    /\ looked' = {}
    /\ zoneOk' = {}
    /\ ncalls' = 0
    /\ UNCHANGED << cfg, remote, cancelled, tickPending, cycle, ipStr, rrset, cur, calls,
                    prev, rt, plan, result >>

(* ------------------------------------------------------------------ *)
(* Service.updateRecord and Service.ensureTTL, one attempt per step    *)
(* ------------------------------------------------------------------ *)
\* lines 208-216, and the branch taken at lines 218, 239-253, 273
GetRRSetAttempt ==
    /\ pc = "get_rrset"
    /\ rt.st = "call"
    /\ \/ /\ ~cancelled
          /\ rrset' = remote[CurKey]
          /\ LET c == [cur EXCEPT !.found = TRUE]
                 d == Decide(rrset', c.ip, cfg.PreserveRecords)
             IN CASE d = "create" ->
                        StartCall(c, "create", Call("create", << c.ip >>, c.ttl))
                  [] d = "uptodate" -> ensureTTL(c, rrset', ncalls + 1)
                  [] d = "add" -> StartCall(c, "add", Call("add", << c.ip >>, c.ttl))
                  [] d = "set" -> StartCall(c, "set", Call("set", << c.ip >>, NilInt))
       \/ /\ AttemptFailed(OpErr(rt.attempt, Cause("transport")), ncalls + 1)
          /\ UNCHANGED rrset
    /\ UNCHANGED << cfg, remote, cancelled, ticker, tickPending, cycle, ipCache, ipStr,
                    lastErrs, looked, zoneOk, plan >>

\* lines 220-236
CreateAttempt ==
    /\ pc = "create"
    /\ rt.st = "call"
    /\ \/ /\ ~cancelled
          /\ \E new \in CreateRRSet(cur.ip, cur.ttl) :
                remote' = [remote EXCEPT ![CurKey] = new]
          /\ RecordReturn(cur, NoErr, ncalls + 1)
       \/ /\ AttemptFailed(OpErr(rt.attempt, Cause("transport")), ncalls + 1)
          /\ UNCHANGED remote
    /\ UNCHANGED << cfg, cancelled, ticker, tickPending, cycle, ipCache, ipStr, lastErrs,
                    rrset, looked, zoneOk, plan >>

\* lines 255-270
AddAttempt ==
    /\ pc = "add"
    /\ rt.st = "call"
    /\ \/ /\ ~cancelled
          /\ \E new \in AddRRSetRecords(remote[CurKey], cur.ip, cur.ttl) :
                remote' = [remote EXCEPT ![CurKey] = new]
          /\ ensureTTL(cur, rrset, ncalls + 1)
       \/ /\ AttemptFailed(OpErr(rt.attempt, Cause("transport")), ncalls + 1)
          /\ UNCHANGED remote
    /\ UNCHANGED << cfg, cancelled, ticker, tickPending, cycle, ipCache, ipStr, lastErrs,
                    rrset, looked, zoneOk, plan >>

\* lines 274-288
SetAttempt ==
    /\ pc = "set"
    /\ rt.st = "call"
    /\ \/ /\ ~cancelled
          /\ \E new \in SetRRSetRecords(remote[CurKey], cur.ip) :
                remote' = [remote EXCEPT ![CurKey] = new]
          /\ ensureTTL(cur, rrset, ncalls + 1)
       \/ /\ AttemptFailed(OpErr(rt.attempt, Cause("transport")), ncalls + 1)
          /\ UNCHANGED remote
    /\ UNCHANGED << cfg, cancelled, ticker, tickPending, cycle, ipCache, ipStr, lastErrs,
                    rrset, looked, zoneOk, plan >>

\* ensureTTL lines 327-338
ChangeTTLAttempt ==
    /\ pc = "change_ttl"
    /\ rt.st = "call"
    /\ \/ /\ ~cancelled
          /\ \E new \in ChangeRRSetTTL(remote[CurKey], cur.ttl) :
                remote' = [remote EXCEPT ![CurKey] = new]
          /\ RecordReturn(cur, NoErr, ncalls + 1)
       \/ /\ AttemptFailed(OpErr(rt.attempt, Cause("transport")), ncalls + 1)
          /\ UNCHANGED remote
    /\ UNCHANGED << cfg, cancelled, ticker, tickPending, cycle, ipCache, ipStr, lastErrs,
                    rrset, looked, zoneOk, plan >>

(* ------------------------------------------------------------------ *)
(* retry called on its own, with an operation that succeeds on its     *)
(* plan-th invocation (never, when plan is 0)                          *)
(* ------------------------------------------------------------------ *)
HarnessAttempt ==
    /\ pc = "harness"
    /\ rt.st = "call"
    /\ IF plan = ncalls + 1
       THEN HarnessReturn(NoErr, ncalls + 1)
       ELSE AttemptFailed(OpErr(ncalls + 1, "transport"), ncalls + 1)
    /\ UNCHANGED << cfg, remote, cancelled, ticker, tickPending, cycle, ipCache, ipStr,
                    lastErrs, rrset, looked, zoneOk, plan >>

(* ------------------------------------------------------------------ *)
(* Initial states and specifications                                   *)
(* ------------------------------------------------------------------ *)
\* the state after NewService, before Run
InitService(zones, remotes) ==
    /\ \E preserve \in BOOLEAN, attempts \in 1..MaxAttempts :
          cfg = Config(zones, preserve, attempts, 1, 3)
    /\ remote \in remotes
    /\ cancelled = FALSE
    /\ ticker = FALSE
    /\ tickPending = FALSE
    /\ cycle = 0
    /\ pc = "run_start"
    /\ zi = 1
    /\ ri = 1
    /\ ipCache = [u \in URLs |-> NoIP]
    /\ ipStr = <<>>
    /\ errs = <<>>
    /\ lastErrs = -1
    /\ rrset = NoRRSet
    /\ cur = NoCur
    /\ calls = <<>>
    /\ prev = [k \in Keys |-> NoPrev]
    /\ looked = {}
    /\ zoneOk = {}
    /\ rt = RetryIdle
    /\ ncalls = 0
    /\ plan = 0
    /\ result = [done |-> FALSE, err |-> NoErr]

\* what the two-zone service finds at the start: a record-set with one
\* value, none, and one with two values
TwoZonesRemote ==
    [k \in Keys |->
        CASE k = << "z1", "@" >> -> RRSet(<< << Lit("v4", 1) >> >>, IntPtr(60))
          [] k = << "z2", "@" >> ->
                RRSet(<< << Lit("v4", 1) >>, << Lit("v4", StaleHost) >> >>, NilInt)
          [] OTHER -> NoRRSet]

\* Two zones, three records.
Init == InitService(TwoZones, { TwoZonesRemote })

\* One zone with one record, over every remote record-set of the bounds.
InitRecord ==
    \E ttl \in { NilInt, IntPtr(60) } :
        InitService(OneZone(ttl),
                    { [k \in Keys |-> IF k = << "z1", "@" >> THEN r ELSE NoRRSet] :
                        r \in RemoteRRSets("v4") })

\* the family of the addresses a record of the type holds
Family(recordType) == IF recordType = "A" THEN "v4" ELSE "v6"

\* One zone of either record type with one record, over every remote
\* record-set of the type's family.
InitFamily ==
    \E type \in { "A", "AAAA" } :
        InitService(<< ZoneConfig("z1", type, "u1", IntPtr(60),
                                  << RecordConfig("@", NilInt) >>) >>,
                    { [k \in Keys |-> IF k = << "z1", "@" >> THEN r ELSE NoRRSet] :
                        r \in RemoteRRSets(Family(type)) })

\* One zone with one record and a TTL, over three remote record-sets: none,
\* two values without a TTL, one stale value with another TTL.
InitSched ==
    InitService(OneZone(IntPtr(60)),
                { [k \in Keys |-> IF k = << "z1", "@" >> THEN r ELSE NoRRSet] :
                    r \in { NoRRSet,
                            RRSet(<< << Lit("v4", 1) >>, << Lit("v4", StaleHost) >> >>, NilInt),
                            RRSet(<< << Lit("v4", StaleHost) >> >>, IntPtr(120)) } })

\* retry(ctx, attempts, baseDelay, maxDelay, fn) on its own
InitRetry ==
    /\ \E attempts \in (-1)..MaxTries, base \in 1..MaxBase, max \in 1..MaxCap :
          /\ cfg = Config(<<>>, FALSE, attempts, base, max)
          /\ rt = RetryStart(attempts, base)
    /\ plan \in 0..(MaxTries + 1)
    /\ remote = [k \in Keys |-> NoRRSet]
    /\ cancelled = FALSE
    /\ ticker = FALSE
    /\ tickPending = FALSE
    /\ cycle = 0
    /\ pc = "harness"
    /\ zi = 1
    /\ ri = 1
    /\ ipCache = [u \in URLs |-> NoIP]
    /\ ipStr = <<>>
    /\ errs = <<>>
    /\ lastErrs = -1
    /\ rrset = NoRRSet
    /\ cur = NoCur
    /\ calls = <<>>
    /\ prev = [k \in Keys |-> NoPrev]
    /\ looked = {}
    /\ zoneOk = {}
    /\ ncalls = 0
    /\ result = [done |-> FALSE, err |-> NoErr]

Next ==
    \/ RunStart
    \/ RunSelectDone
    \/ RunSelectTick
    \/ RunPark
    \/ Tick
    \/ Cancel
    \/ RetrySelectDone
    \/ RetrySelectTimer
    \/ RetryPark
    \/ ZoneStep
    \/ FetchIP
    \/ GetZoneAttempt
    \/ RecordStep
    \/ ZoneDone
    \/ SyncReturn
    \/ GetRRSetAttempt
    \/ CreateAttempt
    \/ AddAttempt
    \/ SetAttempt
    \/ ChangeTTLAttempt

NextSched ==
    \/ RunStart
    \/ RunSelectDone
    \/ RunSelectTick
    \/ RunPark
    \/ TickSched
    \/ Cancel
    \/ RetrySelectDone
    \/ RetrySelectTimer
    \/ RetryPark
    \/ ZoneStep
    \/ FetchIP
    \/ GetZoneAttempt
    \/ RecordStep
    \/ ZoneDone
    \/ SyncReturn
    \/ GetRRSetAttempt
    \/ CreateAttempt
    \/ AddAttempt
    \/ SetAttempt
    \/ ChangeTTLAttempt

NextRetry ==
    \/ HarnessAttempt
    \/ Cancel
    \/ RetrySelectDone
    \/ RetrySelectTimer
    \/ RetryPark

Spec == Init /\ [][Next]_vars

SpecRecord == InitRecord /\ [][Next]_vars

SpecFamily == InitFamily /\ [][Next]_vars

SpecSched == InitSched /\ [][NextSched]_vars

\* a step of the goroutine that runs Run: anything but the ticker firing and
\* the signal arriving
GoroutineStep ==
    \/ RunStart
    \/ RunSelectDone
    \/ RunSelectTick
    \/ RunPark
    \/ RetrySelectDone
    \/ RetrySelectTimer
    \/ RetryPark
    \/ ZoneStep
    \/ FetchIP
    \/ GetZoneAttempt
    \/ RecordStep
    \/ ZoneDone
    \/ SyncReturn
    \/ GetRRSetAttempt
    \/ CreateAttempt
    \/ AddAttempt
    \/ SetAttempt
    \/ ChangeTTLAttempt

\* The scheduler specification under fair scheduling: the goroutine is not
\* starved (every call attempt and every timer returns), and a select that
\* finds ctx.Done() ready again and again eventually takes it (Go chooses
\* among ready cases at random).
SpecSchedLive ==
    /\ InitSched
    /\ [][NextSched]_vars
    /\ WF_vars(GoroutineStep)
    /\ SF_vars(RunSelectDone)

SpecRetry == InitRetry /\ [][NextRetry]_vars

(* ------------------------------------------------------------------ *)
(* Properties                                                          *)
(* ------------------------------------------------------------------ *)
Max(a, b) == IF a >= b THEN a ELSE b
Min(a, b) == IF a <= b THEN a ELSE b

\* the calls of the invocation with one of the given operations
CallsOf(ops) == { i \in 1..Len(calls) : calls[i].op \in ops }

\* updateRecord has looked the record-set up (the lookup succeeded)
LookedUp == cur.valid /\ cur.found

\* updateRecord has returned nil
Succeeded == cur.valid /\ cur.fin /\ cur.err = NoErr

\* the record updateRecord is working on, as configured
CurRecordCfg ==
    CHOOSE r \in Range(ZoneCfg.Records) : r.Name = cur.record

\* C1: a record whose record-set is absent when looked up gets exactly one
\* create call, carrying the one desired address and the resolved TTL, and
\* no append, replace or change-TTL call; once updateRecord has returned
\* nil the record-set holds exactly that.
C1_AbsentIsCreatedOnce ==
    (LookedUp /\ ~rrset.present) =>
        /\ cur.ip = ipStr
        /\ cur.ttl = IF CurRecordCfg.TTL.set THEN CurRecordCfg.TTL ELSE ZoneCfg.TTL
        /\ calls = << Call("get_rrset", <<>>, NilInt),
                      Call("create", << cur.ip >>, cur.ttl) >>
        /\ Succeeded => remote[CurKey] = RRSet(<< cur.ip >>, cur.ttl)

C1_Witness ==
    /\ LookedUp /\ ~rrset.present /\ Succeeded
    /\ cur.ttl.set
    /\ remote[CurKey].Records = << cur.ip >>

\* C2: with preserve on, a record-set of two or more values that lacks the
\* desired one gets one append of the desired value and no create or
\* replace; no prior value is ever dropped, and once the append has
\* succeeded the collection is the prior one plus the desired value.
C2_PreserveAppends ==
    ( /\ LookedUp /\ cfg.PreserveRecords
      /\ rrset.present /\ Len(rrset.Records) >= 2
      /\ cur.ip \notin Range(rrset.Records) ) =>
        /\ CallsOf({ "create", "set" }) = {}
        /\ CallsOf({ "add" }) = { 2 }
        /\ calls[2] = Call("add", << cur.ip >>, cur.ttl)
        /\ remote[CurKey].Records \in
              { rrset.Records, Append(rrset.Records, cur.ip) }
        /\ (Succeeded \/ Len(calls) > 2) =>
              remote[CurKey].Records = Append(rrset.Records, cur.ip)

C2_Witness ==
    /\ LookedUp /\ cfg.PreserveRecords /\ Succeeded
    /\ Len(rrset.Records) >= 2
    /\ cur.ip \notin Range(rrset.Records)
    /\ remote[CurKey].Records = Append(rrset.Records, cur.ip)

\* C3: with preserve off, once updateRecord has returned nil the record-set
\* holds exactly the desired value, whatever it held before.
C3_NoPreserveCollapses ==
    (~cfg.PreserveRecords /\ Succeeded) =>
        /\ remote[CurKey].present
        /\ remote[CurKey].Records = << cur.ip >>

\* the desired value was one of several values and a replace collapsed them
C3_Witness ==
    /\ ~cfg.PreserveRecords /\ Succeeded
    /\ Len(rrset.Records) > 1
    /\ cur.ip \in Range(rrset.Records)
    /\ CallsOf({ "set" }) # {}
    /\ remote[CurKey].Records = << cur.ip >>

\* C4: an invocation that follows a successful one for the same record with
\* the same desired value and TTL issues the lookup and nothing else.
C4_Idempotent ==
    (cur.valid /\ cur.again) => calls = << Call("get_rrset", <<>>, NilInt) >>

\* the second invocation, in the second cycle, has returned
C4_Witness ==
    /\ cur.valid /\ cur.again /\ cur.fin /\ cur.err = NoErr
    /\ cur.ttl.set
    /\ cycle = 2

\* C5: a record-set that holds the desired value and needs no collapse, but
\* whose TTL differs from the resolved one, gets one change-TTL call and no
\* create, append or replace, and keeps its values; with no resolved TTL no
\* change-TTL call is ever issued.
C5_TTLOnly ==
    /\ ( /\ LookedUp /\ rrset.present
         /\ cur.ip \in Range(rrset.Records)
         /\ (cfg.PreserveRecords \/ Len(rrset.Records) <= 1)
         /\ cur.ttl.set /\ rrset.TTL # cur.ttl ) =>
            /\ calls = << Call("get_rrset", <<>>, NilInt),
                          Call("change_ttl", <<>>, cur.ttl) >>
            /\ remote[CurKey].Records = rrset.Records
            /\ Succeeded => remote[CurKey].TTL = cur.ttl
    /\ (cur.valid /\ ~cur.ttl.set) => CallsOf({ "change_ttl" }) = {}

C5_Witness ==
    /\ LookedUp /\ Succeeded
    /\ cur.ip \in Range(rrset.Records)
    /\ Len(rrset.Records) > 1
    /\ cur.ttl.set /\ rrset.TTL # cur.ttl
    /\ remote[CurKey].TTL = cur.ttl

\* C6: without cancellation, an operation that first succeeds on its k-th
\* invocation, k within the attempts, is invoked exactly k times and retry
\* returns success; otherwise it is invoked exactly max(1, attempts) times
\* and retry returns the error of the last invocation.
C6_RetryCounts ==
    (pc = "harness_done" /\ ~cancelled) =>
        LET m == Max(1, cfg.RetryAttempts) IN
        IF plan \in 1..m
        THEN ncalls = plan /\ result.err = NoErr
        ELSE ncalls = m /\ result.err = OpErr(m, "transport")

C6_Witness ==
    /\ pc = "harness_done" /\ ~cancelled
    /\ plan = 3 /\ cfg.RetryAttempts > 3
    /\ ncalls = 3 /\ result.err = NoErr

\* C7: with maxDelay >= baseDelay, the delay of the wait after the n-th
\* failed attempt is min(baseDelay * 2^(n-1), maxDelay), which is at most
\* maxDelay.
C7_Backoff ==
    ( /\ pc = "harness" /\ rt.st \in { "select", "parked" }
      /\ cfg.RetryMaxDelay >= cfg.RetryBaseDelay ) =>
        /\ rt.delay = Min(cfg.RetryBaseDelay * 2 ^ (ncalls - 1), cfg.RetryMaxDelay)
        /\ rt.delay <= cfg.RetryMaxDelay

\* baseDelay 500ms, maxDelay 5s, in units of 500ms: the sixth wait is 5s
C7_Witness ==
    /\ pc = "harness" /\ rt.st = "parked"
    /\ cfg.RetryBaseDelay = 1 /\ cfg.RetryMaxDelay = 10
    /\ ncalls = 6 /\ rt.delay = 10

\* C8: cancellation raised while retry is blocked in its backoff wait makes
\* retry return the cancellation error, with no further invocation of the
\* operation.
C8_CancelDuringWait ==
    [][ (pc = "harness" /\ rt.st = "parked" /\ ~cancelled /\ cancelled') =>
            /\ pc' = "harness_done"
            /\ result'.err = CtxErr
            /\ ncalls' = ncalls ]_vars

\* retry has returned the cancellation error after a failed attempt, with
\* attempts left
C8_Witness ==
    /\ pc = "harness_done"
    /\ result.err = CtxErr
    /\ rt.lastErr.kind = "op"
    /\ ncalls < rt.attempts

\* C9: every failure of a cycle that stems from a transport or upstream error
\* is reported only after max(1, RetryAttempts) attempts of the operation.
C9_EveryFailureRetried ==
    \A i \in 1..Len(errs) :
        errs[i].err.cause = "transport" =>
            errs[i].tries = Max(1, cfg.RetryAttempts)

\* C10: at the end of a cycle every zone has been attempted: it failed as a
\* zone, or it passed IP fetch, validation and zone lookup and then every one
\* of its records had its lookup issued, whatever failed before; and Run
\* does not return unless cancelled.
C10_Containment ==
    /\ (pc = "zone" /\ zi > Len(cfg.Zones)) =>
          \A j \in 1..Len(cfg.Zones) :
             LET z == cfg.Zones[j] IN
             IF z.Name \in zoneOk
             THEN \A r \in Range(z.Records) : << z.Name, r.Name >> \in looked
             ELSE \E e \in Range(errs) : e.zone = z.Name /\ e.record = ""
    /\ pc = "stopped" => cancelled

\* the second cycle ends, uncancelled, after a first one with errors; the
\* first record of the first zone failed and all three records were looked up
C10_Witness ==
    /\ pc = "zone" /\ zi > Len(cfg.Zones) /\ ~cancelled
    /\ cycle = 2 /\ lastErrs > 0
    /\ \E e \in Range(errs) : e.zone = "z1" /\ e.record = "@"
    /\ looked = { << "z1", "@" >>, << "z1", "vpn" >>, << "z2", "@" >> }

\* C11: once the cancellation signal is raised no sync cycle begins, whether
\* the cancellation precedes the initial cycle or is pending together with
\* a tick when Run next waits.
C11_NoCycleAfterCancel ==
    [][ cycle' # cycle => ~cancelled ]_vars

\* C12: no entry of the cycle's error list is the cancellation error that
\* retry returned.
C12_CancelNotRecorded ==
    \A i \in 1..Len(errs) : errs[i].err # CtxErr

\* C13: Run has returned only if the cancellation signal was raised; a
\* cycle that ended, with errors or without, leaves Run waiting on a live
\* ticker, and a tick then received starts the next cycle.
C13_StoppedOnlyByCancel ==
    /\ pc = "stopped" => cancelled
    /\ pc \in { "run_select", "run_parked" } => ticker /\ lastErrs >= 0
    /\ (pc = "run_select" /\ tickPending) => ENABLED RunSelectTick

\* the second cycle runs, uncancelled, after a first one that ended with
\* errors
C13_Witness ==
    /\ cycle = 2 /\ lastErrs > 0 /\ ~cancelled
    /\ pc = "get_rrset"

\* C14: the first cycle starts from the entry of Run, before the ticker
\* exists; every later cycle starts by taking one tick, from the buffer or
\* as it fires, and every tick taken starts exactly one cycle.
C14_CyclesFollowTicks ==
    [][ /\ cycle' # cycle =>
              /\ cycle' = cycle + 1
              /\ \/ cycle = 0 /\ pc = "run_start" /\ ~ticker /\ ~tickPending
                 \/ /\ cycle > 0 /\ ticker
                    /\ \/ pc = "run_select" /\ tickPending /\ ~tickPending'
                       \/ pc = "run_parked" /\ ~tickPending /\ ~tickPending'
        /\ (tickPending /\ ~tickPending') => cycle' = cycle + 1
        /\ (pc \in { "run_select", "run_parked" }) => cycle >= 1 ]_vars

\* the second cycle has begun and the tick that started it is consumed
C14_Witness ==
    /\ cycle = 2 /\ pc = "zone" /\ zi = 1 /\ errs = <<>>
    /\ ~tickPending /\ ticker

\* C15: with preserve on, no replace call is in progress against a
\* record-set of more than one value, and no step takes a value out of such
\* a record-set, over every cycle and every change of the address.
C15_MultiValueOnlyGrows ==
    [][ cfg.PreserveRecords =>
            /\ pc = "set" => Len(remote[CurKey].Records) <= 1
            /\ \A k \in Keys :
                  Len(remote[k].Records) > 1 =>
                      /\ Range(remote[k].Records) \subseteq Range(remote'[k].Records)
                      /\ Len(remote'[k].Records) >= Len(remote[k].Records) ]_vars

\* in the second cycle the address is a new one and is appended to a
\* record-set of two values
C15_Witness ==
    /\ cfg.PreserveRecords /\ cycle = 2 /\ Succeeded
    /\ Len(rrset.Records) = 2
    /\ CallsOf({ "add" }) # {}
    /\ Len(remote[CurKey].Records) = 3

\* C16 as stated: a record-set that holds the desired value gets no create,
\* append or replace call.
C16_NoMutationWhenPresent ==
    (LookedUp /\ rrset.present /\ cur.ip \in Range(rrset.Records)) =>
        CallsOf({ "create", "add", "set" }) = {}

\* C16 amended: a record-set that holds the desired value gets no create,
\* append or replace call when preserve is on or the value is its only
\* one; with preserve off and further values it gets one replace call that
\* leaves the desired value alone.
C16_NoMutationUnlessCollapse ==
    (LookedUp /\ rrset.present /\ cur.ip \in Range(rrset.Records)) =>
        IF cfg.PreserveRecords \/ Len(rrset.Records) <= 1
        THEN CallsOf({ "create", "add", "set" }) = {}
        ELSE /\ CallsOf({ "create", "add" }) = {}
             /\ Len(calls) >= 2
             /\ calls[2] = Call("set", << cur.ip >>, NilInt)
             /\ CallsOf({ "set" }) = { 2 }

\* preserve is on, the desired value is one of two, and the lookup was the
\* only call
C16_Witness ==
    /\ LookedUp /\ Succeeded /\ cfg.PreserveRecords
    /\ Len(rrset.Records) = 2 /\ cur.ip \in Range(rrset.Records)
    /\ calls = << Call("get_rrset", <<>>, NilInt) >>
    /\ remote[CurKey] = rrset

\* C17: a zone of type A goes on to its zone lookup iff the resolved
\* address has a 4-byte form, a zone of type AAAA iff it has none; a zone
\* whose address is rejected is reported failed at "ip validation" and gets
\* no zone lookup and no record-set call in that cycle.
C17_FamilyValidation ==
    \A j \in 1..Len(cfg.Zones) :
        LET z == cfg.Zones[j]
            ip == ipCache[z.IPProviderURL]
            fits == (z.RecordType = "A" /\ ip.to4) \/ (z.RecordType = "AAAA" /\ ~ip.to4)
            passed == \/ z.Name \in zoneOk
                      \/ j = zi /\ pc \in { "get_zone", "record" } \cup RecordOps
            rejected == \E e \in Range(errs) : e.zone = z.Name /\ e.stage = "ip validation"
        IN /\ passed => ip # NoIP /\ fits
           /\ rejected =>
                 /\ ip # NoIP /\ ~fits
                 /\ ~passed
                 /\ \A r \in Range(z.Records) : << z.Name, r.Name >> \notin looked
                 /\ \A e \in Range(errs) : e.zone = z.Name => e.stage = "ip validation"
           /\ (j < zi /\ ip # NoIP) =>
                 passed \/ \E e \in Range(errs) : e.zone = z.Name /\ e.record = ""

\* an AAAA zone was handed an IPv4 (or IPv4-mapped) address and the cycle
\* has ended with that one failure
C17_Witness ==
    /\ cfg.Zones[1].RecordType = "AAAA"
    /\ ipCache["u1"] # NoIP /\ ipCache["u1"].to4
    /\ pc = "zone" /\ zi > Len(cfg.Zones)
    /\ Len(errs) = 1 /\ errs[1].stage = "ip validation"
    /\ looked = {}

\* C18: after an append or a replace, a change-TTL call is issued iff the
\* resolved TTL is set and differs from the TTL the record-set has after
\* that mutation.
C18_TTLAgainstCurrent ==
    /\ (cur.valid /\ pc = "change_ttl" /\ CallsOf({ "add", "set" }) # {}) =>
            cur.ttl.set /\ remote[CurKey].TTL # cur.ttl
    /\ (Succeeded /\ CallsOf({ "add", "set" }) # {} /\ CallsOf({ "change_ttl" }) = {}) =>
            ~cur.ttl.set \/ remote[CurKey].TTL = cur.ttl

\* C19: in a cycle that was under way when the cancellation was raised (an
\* address was resolved or a zone looked up in it), no zone and no record is
\* taken up after the cancellation: no IP request, zone lookup or
\* record-set lookup is entered.
C19_NoNewWorkAfterCancel ==
    [][ ( /\ cancelled
          /\ zoneOk # {} \/ \E u \in URLs : ipCache[u] # NoIP
          /\ pc \in { "zone", "record" } ) =>
            pc' \notin { "ip_fetch", "get_zone", "get_rrset" } ]_vars

\* C20: within a cycle a provider that has answered is not asked again, its
\* cached address stays what it is, and every record is reconciled against
\* the cached address of its zone's provider; the cache is empty when a
\* cycle begins.
C20_CycleScopedCache ==
    [][ /\ (pc = "zone" /\ pc' = "ip_fetch") =>
                ipCache[cfg.Zones[zi].IPProviderURL] = NoIP
        /\ \A u \in URLs :
              (ipCache[u] # NoIP /\ ~(pc = "zone" /\ zi > Len(cfg.Zones))) =>
                  ipCache'[u] = ipCache[u]
        /\ (pc = "record" /\ pc' = "get_rrset") =>
                /\ ipCache[ZoneCfg.IPProviderURL] # NoIP
                /\ cur'.ip = IPString(ipCache[ZoneCfg.IPProviderURL])
        /\ cycle' # cycle => \A u \in URLs : ipCache'[u] = NoIP ]_vars

\* in the second cycle both zones passed their zone lookup and the second
\* zone's record is reconciled against the address cached for the shared
\* provider
C20_Witness ==
    /\ cycle = 2 /\ zi = 2 /\ pc = "get_rrset"
    /\ zoneOk = { "z1", "z2" }
    /\ ipCache["u1"] # NoIP
    /\ cur.ip = IPString(ipCache["u1"])

\* C21: a zone whose IP request, address validation or zone lookup failed
\* has one zone-level failure in the cycle's list and no record-set call of
\* any of its records; the step that reports the failure goes to the next
\* zone, and every zone the cycle has passed either went on to its records
\* or is reported failed.
C21_ZoneFailureSkipsRecords ==
    [][ /\ \A j \in 1..Len(cfg.Zones) :
              LET z == cfg.Zones[j]
                  fails == { i \in 1..Len(errs) :
                                errs[i].zone = z.Name /\ errs[i].record = "" }
              IN /\ fails # {} =>
                       /\ Cardinality(fails) = 1
                       /\ \A i \in fails :
                             errs[i].stage \in { "ip fetch", "ip validation", "zone lookup" }
                       /\ z.Name \notin zoneOk
                       /\ \A r \in Range(z.Records) : << z.Name, r.Name >> \notin looked
                       /\ \A e \in Range(errs) : e.zone = z.Name => e.record = ""
                       /\ j < zi
                 /\ j < zi => fails # {} \/ z.Name \in zoneOk
        /\ (Len(errs') = Len(errs) + 1 /\ errs'[Len(errs')].record = "") =>
              /\ errs'[Len(errs')].zone = ZoneCfg.Name
              /\ pc \in { "zone", "ip_fetch", "get_zone" }
              /\ pc' = "zone" /\ zi' = zi + 1
              /\ looked' = looked /\ remote' = remote ]_vars

\* the first zone was not found, and the cycle went on to the record of
\* the second zone
C21_Witness ==
    /\ ~cancelled /\ zi = 2 /\ pc = "get_rrset"
    /\ Len(errs) = 1 /\ errs[1].zone = "z1" /\ errs[1].stage = "zone lookup"
    /\ errs[1].err.cause = "notfound"
    /\ looked = { << "z2", "@" >> }

C23_Convergence ==
    /\ (pc = "zone" /\ zi > Len(cfg.Zones) /\ errs = <<>> /\ ~cancelled) =>
          \A j \in 1..Len(cfg.Zones) :
             \A r \in Range(cfg.Zones[j].Records) :
                LET z == cfg.Zones[j]
                    now == remote[<< z.Name, r.Name >>]
                    want == IPString(ipCache[z.IPProviderURL])
                    ttl == IF r.TTL.set THEN r.TTL ELSE z.TTL
                IN /\ ipCache[z.IPProviderURL] # NoIP
                   /\ now.present
                   /\ want \in Range(now.Records)
                   /\ ~cfg.PreserveRecords => now.Records = << want >>
                   /\ ttl.set => now.TTL = ttl
    /\ (cur.valid /\ cur.again /\ ~cancelled) =>
          CallsOf({ "create", "add", "set", "change_ttl" }) = {}

\* the second of two cycles without an error ends; the two-valued
\* record-set of the second zone was collapsed and given the zone's TTL
C23_Witness ==
    /\ cycle = 2 /\ lastErrs = 0 /\ errs = <<>> /\ ~cancelled
    /\ pc = "zone" /\ zi > Len(cfg.Zones)
    /\ ~cfg.PreserveRecords
    /\ remote[<< "z2", "@" >>] = RRSet(<< IPString(ipCache["u1"]) >>, IntPtr(60))
    /\ remote[<< "z1", "vpn" >>] = RRSet(<< IPString(ipCache["u1"]) >>, IntPtr(120))

\* C24: under fair scheduling, once the cancellation signal is raised Run
\* eventually returns; and always, a retry has invoked its operation at
\* most max(1, attempts) times and is in at most its (max(1, attempts)-1)-th
\* wait.
C24_ShutdownTerminates ==
    /\ [](/\ ncalls <= Max(1, cfg.RetryAttempts)
          /\ rt.st # "idle" => rt.attempt <= Max(1, cfg.RetryAttempts)
          /\ rt.st \in { "select", "parked" } =>
                rt.attempt <= Max(1, cfg.RetryAttempts) - 1)
    /\ (cancelled ~> pc = "stopped")

\* Run has returned after a later cycle that ended with errors, although a
\* tick was waiting in the channel beside the cancellation
C24_Witness ==
    /\ pc = "stopped" /\ cancelled
    /\ cycle >= 2 /\ lastErrs > 0
    /\ tickPending

\* C25: a failed IP request leaves the cache as it was, without an entry for
\* the provider; a zone whose provider has no entry always gets a request
\* of its own; so the zones that failed at the request are, among the zones
\* of one provider, those before the first success, each after exactly one
\* request, and no zone after it.
C25_FailureNotCached ==
    [][ /\ (Len(errs') = Len(errs) + 1 /\ errs'[Len(errs')].stage = "ip fetch") =>
              /\ pc = "ip_fetch"
              /\ errs'[Len(errs')].zone = ZoneCfg.Name
              /\ errs'[Len(errs')].tries = 1
              /\ ipCache[ZoneCfg.IPProviderURL] = NoIP
              /\ ipCache' = ipCache
        /\ (pc = "ip_fetch" /\ pc' # pc /\ ipCache' = ipCache) =>
              /\ Len(errs') = Len(errs) + 1
              /\ errs'[Len(errs')].stage = "ip fetch"
        /\ (pc = "zone" /\ zi <= Len(cfg.Zones) /\ pc' # pc
                /\ ipCache[ZoneCfg.IPProviderURL] = NoIP) =>
              pc' = "ip_fetch" /\ zi' = zi /\ errs' = errs
        /\ \A j, k \in 1..Len(cfg.Zones) :
              LET failed(n) == \E e \in Range(errs) :
                                  e.zone = cfg.Zones[n].Name /\ e.stage = "ip fetch"
                  u == cfg.Zones[j].IPProviderURL
              IN /\ (j < k /\ cfg.Zones[k].IPProviderURL = u /\ failed(k)) => failed(j)
                 /\ (j < zi /\ ipCache[u] = NoIP) => failed(j)
                 /\ failed(j) => j < zi ]_vars

\* the request failed for the first zone and was made anew, with success,
\* for the second zone of the same provider
C25_Witness ==
    /\ ~cancelled /\ zi = 2 /\ pc = "get_rrset"
    /\ cfg.Zones[1].IPProviderURL = cfg.Zones[2].IPProviderURL
    /\ Len(errs) = 1 /\ errs[1].zone = "z1" /\ errs[1].stage = "ip fetch"
    /\ ipCache["u1"] # NoIP
    /\ cur.ip = IPString(ipCache["u1"])
====
